---- MODULE Spec2Model ----
(***************************************************************************)
(* galacticbuf: the binary wire format of src/src/galacticbuf.rs.          *)
(*                                                                         *)
(* Bytes are naturals 0..255 and a buffer (&[u8], Vec<u8>) is a sequence   *)
(* of bytes.  A String / FieldName is the sequence of its UTF-8 bytes.     *)
(* An i64 is four 16-bit words, most significant first, the first one      *)
(* signed (two's complement, 64 bits wide).  A HashMap<FieldName,          *)
(* FieldValue> is a function from names to values.  A value of an enum     *)
(* is a record of one field, named as the variant: a FieldValue is         *)
(* [Integer |-> i], [String |-> s], [List |-> l] or [Object |-> o], a      *)
(* List is [Integers |-> v], [Strings |-> v] or [Objects |-> v].  A        *)
(* Message is [header, body].                                              *)
(***************************************************************************)
EXTENDS Integers, Sequences, FiniteSets, TLC

VERSION1 == 1
INTEGER_T == 1
STRING_T == 2
LIST_T == 3
OBJECT_T == 4

U8_MAX == 255
U16_MAX == 65535
I64_SIZE == 8

Byte == 0..255

(***************************************************************************)
(* Slices.  bytes.get(..n) is None when n > len; bytes.get(n..) likewise;  *)
(* bytes[i] aborts when i >= len.                                          *)
(***************************************************************************)
HasPrefix(bytes, n) == n <= Len(bytes)

Prefix(bytes, n) == SubSeq(bytes, 1, n)

\* match bytes.get(n..) { Some(slice) => slice, None => &[] }
Suffix(bytes, n) == IF n <= Len(bytes) THEN SubSeq(bytes, n + 1, Len(bytes)) ELSE <<>>

OutOfBounds == -1

\* bytes[i], zero-based: the byte, or OutOfBounds where the index operation panics
Index(bytes, i) == IF i < Len(bytes) THEN bytes[i + 1] ELSE OutOfBounds

\* a - b on usize: the difference, or OutOfBounds where the subtraction underflows
UsizeSub(a, b) == IF a >= b THEN a - b ELSE OutOfBounds

\* u16::to_be_bytes
U16ToBe(n) == <<(n \div 256) % 256, n % 256>>

\* u16::from_be_bytes
U16FromBe(b) == b[1] * 256 + b[2]

(***************************************************************************)
(* Results of deserialize: Ok((value, rest)) or Err(DeserializeError).     *)
(* The error's kind is the message the code formats; read is the number    *)
(* of bytes of the given slice consumed before the failing read.  Abort    *)
(* is a panic: no Result is returned.                                      *)
(***************************************************************************)
Ok(v, rest) == [ok |-> TRUE, val |-> v, rest |-> rest, kind |-> "None", read |-> 0]

Err(kind, read) == [ok |-> FALSE, val |-> <<>>, rest |-> <<>>, kind |-> kind, read |-> read]

\* the error of a callee that was handed bytes.get(k..): map_err and ? keep the kind
After(k, r) == IF r.ok THEN r ELSE [r EXCEPT !.read = @ + k]

(***************************************************************************)
(* i64                                                                     *)
(***************************************************************************)
\* i64::to_be_bytes
I64ToBe(i) == U16ToBe(i[1] % 65536) \o U16ToBe(i[2]) \o U16ToBe(i[3]) \o U16ToBe(i[4])

\* i64::from_be_bytes
I64FromBe(b) ==
    LET top == U16FromBe(SubSeq(b, 1, 2))
    IN  << IF top >= 32768 THEN top - 65536 ELSE top,
           U16FromBe(SubSeq(b, 3, 4)), U16FromBe(SubSeq(b, 5, 6)), U16FromBe(SubSeq(b, 7, 8)) >>

I64Serialize(i) == {I64ToBe(i)}

I64Deserialize(bytes) ==
    IF ~HasPrefix(bytes, I64_SIZE)
    THEN Err("TruncatedBuffer", 0)
    ELSE Ok(I64FromBe(Prefix(bytes, I64_SIZE)), Suffix(bytes, I64_SIZE))

(***************************************************************************)
(* String: raw UTF-8 data, the count supplied by the caller                *)
(***************************************************************************)
IsCont(b, lo, hi) == b >= lo /\ b <= hi

\* the number of bytes of the well-formed UTF-8 scalar value at the head of s, or 0
Utf8Width(s) ==
    LET n == Len(s)
        b1 == s[1]
        c(i, lo, hi) == n >= i /\ IsCont(s[i], lo, hi)
    IN  IF b1 <= 127 THEN 1
        ELSE IF b1 >= 194 /\ b1 <= 223 THEN (IF c(2, 128, 191) THEN 2 ELSE 0)
        ELSE IF b1 = 224 THEN (IF c(2, 160, 191) /\ c(3, 128, 191) THEN 3 ELSE 0)
        ELSE IF (b1 >= 225 /\ b1 <= 236) \/ b1 = 238 \/ b1 = 239
             THEN (IF c(2, 128, 191) /\ c(3, 128, 191) THEN 3 ELSE 0)
        ELSE IF b1 = 237 THEN (IF c(2, 128, 159) /\ c(3, 128, 191) THEN 3 ELSE 0)
        ELSE IF b1 = 240
             THEN (IF c(2, 144, 191) /\ c(3, 128, 191) /\ c(4, 128, 191) THEN 4 ELSE 0)
        ELSE IF b1 >= 241 /\ b1 <= 243
             THEN (IF c(2, 128, 191) /\ c(3, 128, 191) /\ c(4, 128, 191) THEN 4 ELSE 0)
        ELSE IF b1 = 244
             THEN (IF c(2, 128, 143) /\ c(3, 128, 191) /\ c(4, 128, 191) THEN 4 ELSE 0)
        ELSE 0

RECURSIVE FromUtf8Ok(_)
\* std::str::from_utf8(s).is_ok()
FromUtf8Ok(s) ==
    IF s = <<>> THEN TRUE
    ELSE LET w == Utf8Width(s)
         IN  w > 0 /\ FromUtf8Ok(Suffix(s, w))

\* String::serialize: as_bytes
StringSerialize(s) == {s}

StringDeserialize(bytes, count) ==
    IF count = 0 THEN Ok(<<>>, bytes)
    ELSE IF ~HasPrefix(bytes, count) THEN Err("TruncatedBuffer", 0)
    ELSE IF ~FromUtf8Ok(Prefix(bytes, count)) THEN Err("InvalidUtf8", count)
    ELSE Ok(Prefix(bytes, count), Suffix(bytes, count))

(***************************************************************************)
(* Serialization.  A HashMap is iterated in an arbitrary order, so         *)
(* serialize has a set of possible outputs; a failed assert! (a panic)     *)
(* produces none.                                                          *)
(***************************************************************************)
Concat(A, B) == {a \o b : a \in A, b \in B}

\* match: whether the enum value v is of the given variant
Is(v, variant) == DOMAIN v = {variant}

\* self.clone().into_iter().collect::<Vec<(K, V)>>(): the pairs, in any order
IntoIterCollect(map) ==
    LET n == Cardinality(DOMAIN map)
        Orders == {o \in [1..n -> DOMAIN map] : \A i, j \in 1..n : o[i] = o[j] => i = j}
    IN  {[i \in 1..n |-> <<o[i], map[o[i]]>>] : o \in Orders}

StringValueSerialize(s) ==
    IF Len(s) > U16_MAX THEN {} ELSE {U16ToBe(Len(s)) \o s}

FieldNameSerialize(s) ==
    IF Len(s) > U8_MAX THEN {} ELSE {<<Len(s)>> \o s}

RECURSIVE VecSerialize(_, _)
RECURSIVE PairSerialize(_)
RECURSIVE HashMapSerialize(_)
RECURSIVE ListSerialize(_)
RECURSIVE FieldValueSerialize(_)
RECURSIVE ObjectSerialize(_)

\* T::serialize for the element types Vec<T> is used at
ElemSerialize(T, el) ==
    CASE T = "i64" -> I64Serialize(el)
      [] T = "StringValue" -> StringValueSerialize(el)
      [] T = "Object" -> ObjectSerialize(el)
      [] T = "Pair" -> PairSerialize(el)

VecSerialize(T, list) ==
    IF list = <<>> THEN {<<>>}
    ELSE Concat(ElemSerialize(T, Head(list)), VecSerialize(T, Tail(list)))

PairSerialize(p) == Concat(FieldNameSerialize(p[1]), FieldValueSerialize(p[2]))

HashMapSerialize(map) == UNION {VecSerialize("Pair", v) : v \in IntoIterCollect(map)}

ListSerialize(l) ==
    LET element_type == CASE Is(l, "Integers") -> INTEGER_T
                          [] Is(l, "Strings") -> STRING_T
                          [] Is(l, "Objects") -> OBJECT_T
        T == CASE Is(l, "Integers") -> "i64"
               [] Is(l, "Strings") -> "StringValue"
               [] Is(l, "Objects") -> "Object"
        elements == CASE Is(l, "Integers") -> l.Integers
                      [] Is(l, "Strings") -> l.Strings
                      [] Is(l, "Objects") -> l.Objects
        count == Len(elements)
    IN  IF count > U16_MAX THEN {}
        ELSE Concat({<<element_type>> \o U16ToBe(count)}, VecSerialize(T, elements))

FieldValueSerialize(v) ==
    CASE Is(v, "Integer") -> Concat({<<INTEGER_T>>}, I64Serialize(v.Integer))
      [] Is(v, "String") -> Concat({<<STRING_T>>}, StringValueSerialize(v.String))
      [] Is(v, "List") -> Concat({<<LIST_T>>}, ListSerialize(v.List))
      [] Is(v, "Object") -> Concat({<<OBJECT_T>>}, ObjectSerialize(v.Object))

ObjectSerialize(o) ==
    LET count == Cardinality(DOMAIN o)
    IN  IF count > U8_MAX THEN {} ELSE Concat({<<count>>}, HashMapSerialize(o))

\* the header is written as the caller set it
HeaderSerialize(h) == {<<h.version, h.field_count>> \o U16ToBe(h.length)}

MessageSerialize(m) == Concat(HeaderSerialize(m.header), HashMapSerialize(m.body))

(***************************************************************************)
(* Deserialization                                                         *)
(***************************************************************************)
Consumed(bytes, rest) == Len(bytes) - Len(rest)

StringValueDeserialize(bytes) ==
    IF ~HasPrefix(bytes, 2) THEN Err("TruncatedBuffer", 0)
    ELSE After(2, StringDeserialize(Suffix(bytes, 2), U16FromBe(Prefix(bytes, 2))))

FieldNameDeserialize(bytes) ==
    IF ~HasPrefix(bytes, 1) THEN Err("TruncatedBuffer", 0)
    ELSE After(1, StringDeserialize(Suffix(bytes, 1), bytes[1]))

\* Collect with the first pair of a key kept
CollectFirst(list) ==
    LET keys == {list[i][1] : i \in DOMAIN list}
        first(k) == CHOOSE i \in DOMAIN list :
                        /\ list[i][1] = k
                        /\ \A j \in DOMAIN list : list[j][1] = k => i <= j
    IN  [k \in keys |-> list[first(k)][2]]

\* list.into_iter().collect(): a later pair replaces an earlier one of the same key
Collect(list) ==
    LET keys == {list[i][1] : i \in DOMAIN list}
        last(k) == CHOOSE i \in DOMAIN list :
                       /\ list[i][1] = k
                       /\ \A j \in DOMAIN list : list[j][1] = k => j <= i
    IN  [k \in keys |-> list[last(k)][2]]

\* Ok((variant(value), bytes)) of a callee's Ok((value, bytes)); its error as it is
Variant(variant, r) == IF r.ok THEN Ok(variant :> r.val, r.rest) ELSE r

RECURSIVE VecLoop(_, _, _, _, _)
RECURSIVE VecPush(_, _, _, _, _)
RECURSIVE PairDeserialize(_)
RECURSIVE HashMapDeserialize(_, _)
RECURSIVE ListDeserialize(_)
RECURSIVE FieldValueDeserialize(_)
RECURSIVE ObjectDeserialize(_)

\* T::deserialize(bytes, None) for the element types Vec<T> is used at
ElemDeserialize(T, bytes) ==
    CASE T = "i64" -> I64Deserialize(bytes)
      [] T = "StringValue" -> StringValueDeserialize(bytes)
      [] T = "Object" -> ObjectDeserialize(bytes)
      [] T = "Pair" -> PairDeserialize(bytes)

\* VecLoop over 0..=count
VecLoopInclusive(T, orig, bytes, count, list) ==
    IF Len(list) > count THEN Ok(list, bytes)
    ELSE VecPush(T, orig, count, list, After(Consumed(orig, bytes), ElemDeserialize(T, bytes)))

\* the loop of Vec<T>::deserialize: list holds the elements read so far
VecLoop(T, orig, bytes, count, list) ==
    IF Len(list) >= count THEN Ok(list, bytes)
    ELSE VecPush(T, orig, count, list, After(Consumed(orig, bytes), ElemDeserialize(T, bytes)))

\* the loop's body after T::deserialize returned r
VecPush(T, orig, count, list, r) ==
    IF ~r.ok THEN r ELSE VecLoop(T, orig, r.rest, count, Append(list, r.val))

VecDeserialize(T, bytes, count) == VecLoop(T, bytes, bytes, count, <<>>)

\* the pair (u, v) once V::deserialize returned v
PairOf(u, v) == IF ~v.ok THEN v ELSE Ok(<<u, v.val>>, v.rest)

\* the second half of the pair once U::deserialize returned u
PairSecond(bytes, u) ==
    IF ~u.ok THEN u
    ELSE PairOf(u.val, After(Consumed(bytes, u.rest), FieldValueDeserialize(u.rest)))

PairDeserialize(bytes) == PairSecond(bytes, FieldNameDeserialize(bytes))

\* the map once Vec::<(K, V)>::deserialize returned l
CollectOk(l) == IF ~l.ok THEN l ELSE Ok(Collect(l.val), l.rest)

HashMapDeserialize(bytes, count) == CollectOk(VecDeserialize("Pair", bytes, count))

\* ListDeserialize with any other element type read as Object
ListDeserializeDefaultObject(bytes) ==
    IF ~HasPrefix(bytes, 1) THEN Err("TruncatedBuffer", 0)
    ELSE LET element_type == bytes[1]
             bytes1 == Suffix(bytes, 1)
         IN  IF ~HasPrefix(bytes1, 2) THEN Err("TruncatedBuffer", 1)
             ELSE LET count == U16FromBe(Prefix(bytes1, 2))
                      bytes2 == Suffix(bytes1, 2)
                  IN  CASE element_type = INTEGER_T ->
                             Variant("Integers", After(3, VecDeserialize("i64", bytes2, count)))
                        [] element_type = STRING_T ->
                             Variant("Strings", After(3, VecDeserialize("StringValue", bytes2, count)))
                        [] OTHER ->
                             Variant("Objects", After(3, VecDeserialize("Object", bytes2, count)))

ListDeserialize(bytes) ==
    IF ~HasPrefix(bytes, 1) THEN Err("TruncatedBuffer", 0)
    ELSE LET element_type == bytes[1]
             bytes1 == Suffix(bytes, 1)
         IN  IF ~HasPrefix(bytes1, 2) THEN Err("TruncatedBuffer", 1)
             ELSE LET count == U16FromBe(Prefix(bytes1, 2))
                      bytes2 == Suffix(bytes1, 2)
                  IN  CASE element_type = INTEGER_T ->
                             Variant("Integers", After(3, VecDeserialize("i64", bytes2, count)))
                        [] element_type = STRING_T ->
                             Variant("Strings", After(3, VecDeserialize("StringValue", bytes2, count)))
                        [] element_type = OBJECT_T ->
                             Variant("Objects", After(3, VecDeserialize("Object", bytes2, count)))
                        [] OTHER -> Err("UnknownTypeTag", 3)

FieldValueDeserialize(bytes) ==
    IF ~HasPrefix(bytes, 1) THEN Err("TruncatedBuffer", 0)
    ELSE LET type_indicator == bytes[1]
             bytes1 == Suffix(bytes, 1)
         IN  CASE type_indicator = INTEGER_T ->
                    Variant("Integer", After(1, I64Deserialize(bytes1)))
               [] type_indicator = STRING_T ->
                    Variant("String", After(1, StringValueDeserialize(bytes1)))
               [] type_indicator = LIST_T ->
                    Variant("List", After(1, ListDeserialize(bytes1)))
               [] type_indicator = OBJECT_T ->
                    Variant("Object", After(1, ObjectDeserialize(bytes1)))
               [] OTHER -> Err("UnknownTypeTag", 1)

ObjectDeserialize(bytes) ==
    IF ~HasPrefix(bytes, 1) THEN Err("TruncatedBuffer", 0)
    ELSE After(1, HashMapDeserialize(Suffix(bytes, 1), bytes[1]))

\* HeaderDeserialize without the check of bytes.get(..4)
HeaderDeserializeUnchecked(bytes) ==
    LET b == [i \in 0..3 |-> Index(bytes, i)]
    IN  IF \E i \in 0..3 : b[i] = OutOfBounds THEN Err("Abort", 0)
        ELSE Ok([version |-> b[0], field_count |-> b[1],
                 length |-> U16FromBe(<<b[2], b[3]>>)], Suffix(bytes, 4))

\* Header::deserialize; an index past the end of the slice aborts
HeaderDeserialize(bytes) ==
    IF ~HasPrefix(bytes, 4) THEN Err("TruncatedBuffer", 0)
    ELSE LET b == [i \in 0..3 |-> Index(bytes, i)]
         IN  IF \E i \in 0..3 : b[i] = OutOfBounds THEN Err("Abort", 0)
             ELSE Ok([version |-> b[0], field_count |-> b[1],
                      length |-> U16FromBe(<<b[2], b[3]>>)], Suffix(bytes, 4))

(***************************************************************************)
(* The checks of Message::deserialize                                      *)
(***************************************************************************)
\* VersionMismatch that refuses only a newer version
VersionMismatchNewer(h) == h.version > VERSION1

\* header.version != VERSION1
VersionMismatch(h) == h.version # VERSION1

\* LengthExceedsBuffer without the 4 bytes of the header
LengthExceedsBody(h, bytes) == h.length > Len(bytes)

\* header.length as usize > bytes.len() + 4
LengthExceedsBuffer(h, bytes) == h.length > Len(bytes) + 4

\* MessageLength with the operands exchanged
MessageLengthExchanged(old_bytes, bytes) == UsizeSub(Len(bytes), Len(old_bytes))

\* old_bytes.len() - bytes.len()
MessageLength(old_bytes, bytes) == UsizeSub(Len(old_bytes), Len(bytes))

(***************************************************************************)
(* Inputs.  The caller builds a Message, header included, and serializes   *)
(* it; the buffer handed to deserialize is that encoding or any other      *)
(* byte sequence, reached here by overwriting, cutting and appending.      *)
(***************************************************************************)
MaxFlips == 1
MaxExtra == 2

\* i64 values: 1001, -2, 2^48
I1001 == <<0, 0, 0, 1001>>
IMinus2 == <<-1, 65535, 65535, 65534>>
IBig == <<1, 0, 0, 0>>

FvInteger(i) == [Integer |-> i]
FvString(s) == [String |-> s]
FvList(variant, items) == [List |-> variant :> items]
FvObject(map) == [Object |-> map]

NameA == <<97>>
NameB == <<98>>
EAcute == <<195, 169>>
EmptyMap == [k \in {} |-> 0]

SampleBodies ==
    { EmptyMap,
      NameA :> FvInteger(IMinus2),
      <<>> :> FvString(<<>>),
      NameA :> FvString(EAcute) @@ NameB :> FvString(<<>>),
      NameA :> FvList("Integers", <<IBig>>),
      NameA :> FvList("Strings", <<NameA, <<>>>>),
      NameA :> FvList("Objects", <<NameB :> FvString(<<>>), EmptyMap>>),
      NameB :> FvList("Integers", <<>>),
      NameA :> FvObject(NameA :> FvInteger(I1001) @@ NameB :> FvString(NameB)),
      NameA :> FvObject(NameB :> FvObject(EmptyMap)) }

\* the number of bytes the body serializes to (the same in every order)
BodyLen(body) == Len(CHOOSE b \in HashMapSerialize(body) : TRUE)

\* the header that describes body
HeaderFor(body) ==
    [version |-> VERSION1, field_count |-> Cardinality(DOMAIN body), length |-> 4 + BodyLen(body)]

\* the headers a caller may write: the one that describes body, or one field off
SampleHeaders(body) ==
    LET h == HeaderFor(body)
    IN  {h, [h EXCEPT !.version = 2], [h EXCEPT !.field_count = @ + 1],
         [h EXCEPT !.length = @ + 1], [h EXCEPT !.length = @ - 1]}

SampleMessages ==
    UNION {{[header |-> h, body |-> b] : h \in SampleHeaders(b)} : b \in SampleBodies}

FlipBytes == {0, 3, 5, 97, 255}

ExtraBytes == {1, 255}

Extras == UNION {[1..n -> ExtraBytes] : n \in 1..MaxExtra}

\* buf with the header's length field set to L
WithLength(b, L) == SubSeq(b, 1, 2) \o U16ToBe(L) \o Suffix(b, 4)

SampleLengths(b) == {0, 4, Len(b) - 1, Len(b) + 1, Len(b) + 300, U16_MAX}

VARIABLES msg, wire, buf, hist, pc, header, bytes, body, err

vars == <<msg, wire, buf, hist, pc, header, bytes, body, err>>

NoHeader == [version |-> 0, field_count |-> 0, length |-> 0]

Untouched == [flips |-> 0, relen |-> FALSE, cut |-> FALSE, extra |-> <<>>]

Init ==
    /\ msg \in SampleMessages
    /\ wire = <<>>
    /\ buf = <<>>
    /\ hist = Untouched
    /\ pc = "Built"
    /\ header = NoHeader
    /\ bytes = <<>>
    /\ body = EmptyMap
    /\ err = "None"

decoder == <<header, bytes, body, err>>

\* Message::serialize
Serialize ==
    /\ pc = "Built"
    /\ IF MessageSerialize(msg) = {}
       THEN pc' = "Aborted" /\ UNCHANGED <<wire, buf>>
       ELSE \E b \in MessageSerialize(msg) : wire' = b /\ buf' = b /\ pc' = "Start"
    /\ UNCHANGED <<msg, hist, decoder>>

\* one byte of the buffer is overwritten
SetByte ==
    /\ pc = "Start"
    /\ msg.header = HeaderFor(msg.body)
    /\ hist.flips < MaxFlips /\ hist.extra = <<>>
    /\ \E i \in 1..Len(buf) : \E b \in FlipBytes \ {buf[i]} : buf' = [buf EXCEPT ![i] = b]
    /\ hist' = [hist EXCEPT !.flips = @ + 1]
    /\ UNCHANGED <<msg, wire, pc, decoder>>

\* the header's length field is overwritten
SetLength ==
    /\ pc = "Start"
    /\ hist = Untouched
    /\ \E L \in SampleLengths(buf) \ {U16FromBe(SubSeq(buf, 3, 4))} : buf' = WithLength(buf, L)
    /\ hist' = [hist EXCEPT !.relen = TRUE]
    /\ UNCHANGED <<msg, wire, pc, decoder>>

\* the buffer is cut to a shorter length
Truncate ==
    /\ pc = "Start"
    /\ ~hist.cut /\ hist.flips = 0 /\ hist.extra = <<>>
    /\ \E k \in 0..(Len(buf) - 1) : buf' = SubSeq(buf, 1, k)
    /\ hist' = [hist EXCEPT !.cut = TRUE]
    /\ UNCHANGED <<msg, wire, pc, decoder>>

\* bytes follow the message in the buffer
AppendExtra ==
    /\ pc = "Start"
    /\ ~hist.cut /\ hist.flips = 0 /\ hist.extra = <<>>
    /\ \E e \in Extras : buf' = buf \o e /\ hist' = [hist EXCEPT !.extra = e]
    /\ UNCHANGED <<msg, wire, pc, decoder>>

Fail(kind) ==
    /\ pc' = IF kind = "Abort" THEN "Aborted" ELSE "Err"
    /\ err' = kind

\* let (header, bytes) = Header::deserialize(bytes, None)?
ParseHeader ==
    /\ pc = "Start"
    /\ LET r == HeaderDeserialize(buf)
       IN  IF r.ok
           THEN header' = r.val /\ bytes' = r.rest /\ pc' = "HeaderParsed" /\ UNCHANGED err
           ELSE Fail(r.kind) /\ UNCHANGED <<header, bytes>>
    /\ UNCHANGED <<msg, wire, buf, hist, body>>

\* CheckVersion going on to the body without the length pre-check
CheckVersionSkipsPrecheck ==
    /\ pc = "HeaderParsed"
    /\ IF VersionMismatch(header)
       THEN Fail("UnsupportedVersion")
       ELSE pc' = "LengthPrechecked" /\ UNCHANGED err
    /\ UNCHANGED <<msg, wire, buf, hist, header, bytes, body>>

CheckVersion ==
    /\ pc = "HeaderParsed"
    /\ IF VersionMismatch(header)
       THEN Fail("UnsupportedVersion")
       ELSE pc' = "VersionChecked" /\ UNCHANGED err
    /\ UNCHANGED <<msg, wire, buf, hist, header, bytes, body>>

PrecheckLength ==
    /\ pc = "VersionChecked"
    /\ IF LengthExceedsBuffer(header, bytes)
       THEN Fail("BufferTooShort")
       ELSE pc' = "LengthPrechecked" /\ UNCHANGED err
    /\ UNCHANGED <<msg, wire, buf, hist, header, bytes, body>>

\* HashMap::<FieldName, FieldValue>::deserialize(bytes, Some(header.field_count))?
ParseBody ==
    /\ pc = "LengthPrechecked"
    /\ LET r == HashMapDeserialize(bytes, header.field_count)
       IN  IF r.ok
           THEN body' = r.val /\ bytes' = r.rest /\ pc' = "BodyParsed" /\ UNCHANGED err
           ELSE Fail(r.kind) /\ UNCHANGED <<body, bytes>>
    /\ UNCHANGED <<msg, wire, buf, hist, header>>

\* VerifyLength refusing only a body that consumed less than the header declares
VerifyLengthUnderOnly ==
    /\ pc = "BodyParsed"
    /\ LET message_length == MessageLength(buf, bytes)
       IN  IF message_length = OutOfBounds THEN Fail("Abort")
           ELSE IF message_length < header.length THEN Fail("LengthMismatch")
           ELSE pc' = "LengthVerified" /\ UNCHANGED err
    /\ UNCHANGED <<msg, wire, buf, hist, header, bytes, body>>

\* on success the call returns Ok((Message { header, body }, bytes))
VerifyLength ==
    /\ pc = "BodyParsed"
    /\ LET message_length == MessageLength(buf, bytes)
       IN  IF message_length = OutOfBounds THEN Fail("Abort")
           ELSE IF message_length # header.length THEN Fail("LengthMismatch")
           ELSE pc' = "LengthVerified" /\ UNCHANGED err
    /\ UNCHANGED <<msg, wire, buf, hist, header, bytes, body>>

Next ==
    \/ Serialize
    \/ SetByte
    \/ SetLength
    \/ Truncate
    \/ AppendExtra
    \/ ParseHeader
    \/ CheckVersion
    \/ PrecheckLength
    \/ ParseBody
    \/ VerifyLength

Spec == Init /\ [][Next]_vars

(***************************************************************************)
(* Properties                                                              *)
(***************************************************************************)
\* the deserialize call has returned (or the process has aborted)
Done == pc \in {"LengthVerified", "Err", "Aborted"}

\* the call returned Ok((Message { header, body }, bytes))
ReturnedOk == pc = "LengthVerified"

\* the buffer is an encoding of msg, as serialize produced it
Intact == pc # "Built" /\ hist = Untouched

\* the caller wrote the header that describes the body
HeaderDescribesBody == msg.header = HeaderFor(msg.body)

\* the 16-bit length field of the buffer's header
LengthField(b) == U16FromBe(SubSeq(b, 3, 4))

\* C7: the encoding starts with a header whose field_count byte is the number of
\* fields emitted and whose big-endian length is the number of bytes produced.
C7_HeaderConsistentOnEncode ==
    (pc = "Start" /\ Intact) =>
        /\ wire[2] = Cardinality(DOMAIN msg.body)
        /\ LengthField(wire) = Len(wire)

\* C1: decoding an encoding of a message within the size limits returns the
\* message, header and body as the caller built them, and an empty remainder.
C1_RoundTrip ==
    (Done /\ Intact) =>
        /\ ReturnedOk
        /\ header = msg.header
        /\ body = msg.body
        /\ bytes = <<>>

\* C9: decoding an encoding followed by extra bytes returns the message and the
\* extra bytes unchanged.
C9_TrailingData ==
    (Done /\ hist.extra # <<>> /\ hist = [Untouched EXCEPT !.extra = hist.extra]) =>
        /\ ReturnedOk
        /\ header = msg.header
        /\ body = msg.body
        /\ bytes = hist.extra

\* Where the caller's header describes the body, the encoding round-trips, with
\* or without trailing bytes.
RoundTripOfDescribedBody ==
    (Done /\ HeaderDescribesBody /\ hist = [Untouched EXCEPT !.extra = hist.extra]) =>
        /\ ReturnedOk
        /\ header = msg.header
        /\ body = msg.body
        /\ bytes = hist.extra

\* C2: decoding a proper prefix of a valid encoded message returns an error, and
\* the error is TruncatedBuffer, BufferTooShort or LengthMismatch.
C2_TruncationSafety ==
    (Done /\ HeaderDescribesBody /\ hist = [Untouched EXCEPT !.cut = TRUE]) =>
        /\ pc = "Err"
        /\ err \in {"TruncatedBuffer", "BufferTooShort", "LengthMismatch"}

\* a valid message cut inside its body has been refused by the length pre-check
C2_Witness ==
    /\ Done /\ HeaderDescribesBody /\ hist = [Untouched EXCEPT !.cut = TRUE]
    /\ Len(buf) > 4
    /\ err = "BufferTooShort"

ErrorKinds ==
    {"TruncatedBuffer", "InvalidUtf8", "UnknownTypeTag", "UnsupportedVersion",
     "BufferTooShort", "LengthMismatch"}

C4_VersionGate ==
    (Done /\ Len(buf) >= 1 /\ buf[1] # VERSION1) =>
        pc = "Err" /\ err = "UnsupportedVersion"

\* C4, amended: a buffer of at least 4 bytes whose first byte is not 0x01 fails
\* with UnsupportedVersion; a shorter one fails with TruncatedBuffer.
C4_VersionGateFromFourBytes ==
    (Done /\ Len(buf) >= 1 /\ buf[1] # VERSION1) =>
        /\ pc = "Err"
        /\ err = IF Len(buf) >= 4 THEN "UnsupportedVersion" ELSE "TruncatedBuffer"

\* an otherwise valid message whose version byte was overwritten has been refused
C4_Witness ==
    /\ pc = "Err" /\ err = "UnsupportedVersion"
    /\ HeaderDescribesBody /\ hist = [Untouched EXCEPT !.flips = 1]
    /\ buf[1] # VERSION1 /\ Len(buf) > 4

\* the buffer is a valid message whose length field alone was overwritten
LengthAltered == HeaderDescribesBody /\ hist = [Untouched EXCEPT !.relen = TRUE]

\* C5 as claimed: a valid message whose length field is altered to any other
\* value fails with LengthMismatch, also when the value exceeds the buffer.
C5_LengthMismatch ==
    (Done /\ LengthAltered) => pc = "Err" /\ err = "LengthMismatch"

\* C5, amended: a valid message whose length field is altered fails, with
\* LengthMismatch when the value is below the buffer's length and with
\* BufferTooShort when it is above.
C5_LengthMismatchWithinBuffer ==
    (Done /\ LengthAltered) =>
        /\ pc = "Err"
        /\ err = IF LengthField(buf) > Len(buf) THEN "BufferTooShort" ELSE "LengthMismatch"

\* a declared length between the header and the true length has been refused
C5_Witness ==
    /\ Done /\ LengthAltered
    /\ LengthField(buf) >= 4 /\ LengthField(buf) < Len(buf)
    /\ err = "LengthMismatch"

\* the pairs the body decode reads from the buffer, before they are folded
BodyPairs == VecDeserialize("Pair", Suffix(buf, 4), header.field_count)

Names(pairs) == {pairs[i][1] : i \in DOMAIN pairs}

\* C6 as claimed: a decoded message's field_count is the number of entries of
\* its mapping.
C6_FieldCountIsEntries ==
    ReturnedOk => header.field_count = Cardinality(DOMAIN body)

\* C6, amended: a decoded message's field_count is the number of pairs read from
\* the body, and its mapping has one entry for each distinct name among them: at
\* most field_count entries, and field_count entries when no name repeats.
C6_FieldCountIsPairsRead ==
    ReturnedOk =>
        /\ BodyPairs.ok
        /\ Len(BodyPairs.val) = header.field_count
        /\ DOMAIN body = Names(BodyPairs.val)
        /\ Cardinality(DOMAIN body) <= header.field_count

\* a message of two pairs with one name has been returned with one entry
C6_Witness ==
    /\ ReturnedOk
    /\ header.field_count = 2
    /\ Cardinality(DOMAIN body) = 1

\* the index in b of the first field's type tag
TagIdx(b) == 6 + b[5]

\* the name of the first field of b
FirstName(b) == SubSeq(b, 6, 5 + b[5])

\* b passes the header checks and its first field's name is read: the body
\* decode reaches the first field's type tag
FirstTagReached(b) ==
    /\ Len(b) >= 5
    /\ b[1] = VERSION1
    /\ b[2] >= 1
    /\ LengthField(b) <= Len(b)
    /\ Len(b) >= TagIdx(b)
    /\ FromUtf8Ok(FirstName(b))

BadValueTag(b) == b[TagIdx(b)] \notin {INTEGER_T, STRING_T, LIST_T, OBJECT_T}

\* the first field is a List and its element-type tag is not a valid one
BadElementTag(b) ==
    /\ b[TagIdx(b)] = LIST_T
    /\ Len(b) > TagIdx(b)
    /\ b[TagIdx(b) + 1] \notin {INTEGER_T, STRING_T, OBJECT_T}

\* C8 as claimed: once the decode reaches an invalid FieldValue tag or an invalid
\* List element-type tag it fails with UnknownTypeTag, whatever follows the tag.
C8_TagExhaustive ==
    (Done /\ FirstTagReached(buf) /\ (BadValueTag(buf) \/ BadElementTag(buf))) =>
        pc = "Err" /\ err = "UnknownTypeTag"

\* C8, amended: an invalid FieldValue tag fails with UnknownTypeTag whatever
\* follows it; an invalid List element-type tag fails with UnknownTypeTag when
\* the two bytes of the element count follow it, and with TruncatedBuffer when
\* they do not.  This holds of the decoders on every slice of the buffer, and of
\* the whole decode for the first field.
C8_TagExhaustiveAfterCount ==
    /\ \A k \in 1..Len(buf) :
           LET s == Suffix(buf, k - 1)
           IN  /\ s[1] \notin {INTEGER_T, STRING_T, LIST_T, OBJECT_T} =>
                      FieldValueDeserialize(s).kind = "UnknownTypeTag"
               /\ s[1] \notin {INTEGER_T, STRING_T, OBJECT_T} =>
                      ListDeserialize(s).kind =
                          IF Len(s) >= 3 THEN "UnknownTypeTag" ELSE "TruncatedBuffer"
    /\ (Done /\ FirstTagReached(buf) /\ BadValueTag(buf)) =>
           pc = "Err" /\ err = "UnknownTypeTag"
    /\ (Done /\ FirstTagReached(buf) /\ BadElementTag(buf)) =>
           /\ pc = "Err"
           /\ err = IF Len(buf) >= TagIdx(buf) + 3 THEN "UnknownTypeTag" ELSE "TruncatedBuffer"

\* a List whose element type is List, count and elements following, was refused
C8_Witness ==
    /\ pc = "Err" /\ err = "UnknownTypeTag"
    /\ FirstTagReached(buf) /\ BadElementTag(buf)
    /\ buf[TagIdx(buf) + 1] = LIST_T
    /\ Len(buf) > TagIdx(buf) + 3

\* the two pairs of a message of two fields
TwoPairs(b) == VecDeserialize("Pair", Suffix(b, 4), 2)

\* b is version 1, declares two fields that parse and bear one name, and its
\* length field is the length of header and fields
TwoFieldsOneName(b) ==
    /\ Len(b) >= 4 /\ b[1] = VERSION1 /\ b[2] = 2
    /\ TwoPairs(b).ok
    /\ TwoPairs(b).val[1][1] = TwoPairs(b).val[2][1]
    /\ LengthField(b) = Len(b) - Len(TwoPairs(b).rest)

\* the two pairs of the Object that is the value of the only field of b
InnerPairs(b) == VecDeserialize("Pair", Suffix(b, TagIdx(b) + 1), 2)

\* b is version 1 and declares one field, an Object of two fields that parse
\* and bear one name, and its length field is the length up to the Object's end
ObjectTwoFieldsOneName(b) ==
    /\ Len(b) >= 5 /\ b[1] = VERSION1 /\ b[2] = 1
    /\ Len(b) > TagIdx(b) /\ FromUtf8Ok(FirstName(b))
    /\ b[TagIdx(b)] = OBJECT_T /\ b[TagIdx(b) + 1] = 2
    /\ InnerPairs(b).ok
    /\ InnerPairs(b).val[1][1] = InnerPairs(b).val[2][1]
    /\ LengthField(b) = Len(b) - Len(InnerPairs(b).rest)

\* C10: a well-formed buffer of two fields with the same name decodes to a
\* mapping of one entry that holds the second field's value, and an Object of
\* two fields with the same name likewise.
C10_DuplicateKeyFold ==
    /\ (Done /\ TwoFieldsOneName(buf)) =>
           /\ ReturnedOk
           /\ header.field_count = 2
           /\ body = (TwoPairs(buf).val[2][1] :> TwoPairs(buf).val[2][2])
    /\ (Done /\ ObjectTwoFieldsOneName(buf)) =>
           /\ ReturnedOk
           /\ body = (FirstName(buf) :>
                        [Object |-> (InnerPairs(buf).val[2][1] :> InnerPairs(buf).val[2][2])])

\* two fields of one name and different values decoded to the second value
C10_Witness ==
    /\ ReturnedOk
    /\ TwoFieldsOneName(buf)
    /\ TwoPairs(buf).val[1][2] # TwoPairs(buf).val[2][2]
    /\ Cardinality(DOMAIN body) = 1

\* the same inside an Object
C10_ObjectWitness ==
    /\ ReturnedOk
    /\ ObjectTwoFieldsOneName(buf)
    /\ InnerPairs(buf).val[1][2] # InnerPairs(buf).val[2][2]

\* the checks of Message::deserialize, in the order of the code, as functions of
\* the buffer
HeaderOf(b) == HeaderDeserialize(b).val

PassesHeader(b) == HeaderDeserialize(b).ok

PassesVersion(b) == PassesHeader(b) /\ ~VersionMismatch(HeaderOf(b))

PassesPrecheck(b) == PassesVersion(b) /\ ~LengthExceedsBuffer(HeaderOf(b), Suffix(b, 4))

BodyResult(b) == HashMapDeserialize(Suffix(b, 4), HeaderOf(b).field_count)

PassesBody(b) == PassesPrecheck(b) /\ BodyResult(b).ok

\* the error of the first check that b fails, "None" when it passes them all
EarliestFailure(b) ==
    IF ~PassesHeader(b) THEN "TruncatedBuffer"
    ELSE IF ~PassesVersion(b) THEN "UnsupportedVersion"
    ELSE IF ~PassesPrecheck(b) THEN "BufferTooShort"
    ELSE IF ~PassesBody(b) THEN BodyResult(b).kind
    ELSE IF Len(b) - Len(BodyResult(b).rest) # HeaderOf(b).length THEN "LengthMismatch"
    ELSE "None"

DecodeOrder ==
    {<<"Start", "HeaderParsed">>, <<"HeaderParsed", "VersionChecked">>,
     <<"VersionChecked", "LengthPrechecked">>, <<"LengthPrechecked", "BodyParsed">>,
     <<"BodyParsed", "LengthVerified">>}

\* the errors the step taken from position p can end the call with
FailureOf(p) ==
    CASE p = "Start" -> {"TruncatedBuffer"}
      [] p = "HeaderParsed" -> {"UnsupportedVersion"}
      [] p = "VersionChecked" -> {"BufferTooShort"}
      [] p = "LengthPrechecked" -> {"TruncatedBuffer", "InvalidUtf8", "UnknownTypeTag"}
      [] p = "BodyParsed" -> {"LengthMismatch"}
      [] OTHER -> {}

\* a step of the call moves to the next position of DecodeOrder or fails with
\* an error of the step it was at; Err and LengthVerified are terminal, and the
\* buffer is not changed once the call has left Start
StepInOrder ==
    /\ pc \in {"Err", "LengthVerified"} => UNCHANGED vars
    /\ (pc \notin {"Built", "Err", "LengthVerified"} /\ pc' # pc) =>
           \/ <<pc, pc'>> \in DecodeOrder /\ err' = "None"
           \/ pc' = "Err" /\ err' \in FailureOf(pc)
    /\ pc \notin {"Built", "Start"} => buf' = buf

\* C11: a Message decode call passes Start, HeaderParsed, VersionChecked,
\* LengthPrechecked, BodyParsed, LengthVerified in that order; the first failing
\* step ends it in the terminal Err and no later step runs, so the error is that
\* of the earliest check the buffer fails: header truncation, then version, then
\* the BufferTooShort pre-check, then a body error, then LengthMismatch.
C11_DecodeStepOrder ==
    /\ [](pc = "Err" => err = EarliestFailure(buf))
    /\ [](ReturnedOk => EarliestFailure(buf) = "None")
    /\ [][StepInOrder]_vars

\* the call ended at the pre-check on a buffer whose body would fail as well
C11_Witness ==
    /\ pc = "Err" /\ err = "BufferTooShort"
    /\ PassesVersion(buf)
    /\ ~BodyResult(buf).ok

\* the call ended at the version check on a buffer that also fails the pre-check
C11_VersionWitness ==
    /\ pc = "Err" /\ err = "UnsupportedVersion"
    /\ LengthExceedsBuffer(HeaderOf(buf), Suffix(buf, 4))

\* the number of bytes of slice that a deserialize call with result r has read:
\* all it consumed, or those before the read that failed
ReadOf(slice, r) == IF r.ok THEN Consumed(slice, r.rest) ELSE r.read

\* the number of bytes of b the body decode reads: those at the offsets
\* 4 .. 4 + BodyRead(b) - 1 from the start of the message
BodyRead(b) == ReadOf(Suffix(b, 4), BodyResult(b))

\* the body decode reads a byte of b at an offset >= n
BodyReadsFrom(b, n) == BodyRead(b) > 0 /\ 4 + BodyRead(b) > n

\* the body decode of the call has run
BodyDecoded == pc \in {"BodyParsed", "LengthVerified", "Err"} /\ PassesPrecheck(buf)

\* C12, as stated: in a call that passes the length pre-check the body decode
\* reads no byte at an offset >= header.length, even when the buffer holds more.
C12_BodyWithinDeclaredLength ==
    BodyDecoded => ~BodyReadsFrom(buf, HeaderOf(buf).length)

\* C12, amended: in a call that passes the length pre-check the body decode reads
\* no byte at an offset >= the length of the buffer; it is handed all of the
\* buffer after the header, so it may read at offsets >= header.length, and a
\* call in which it did ends in Err (a body error or LengthMismatch): a call that
\* returns Ok has read exactly the first header.length bytes.
C12_BodyWithinBuffer ==
    /\ BodyDecoded => ~BodyReadsFrom(buf, Len(buf))
    /\ (BodyDecoded /\ Done /\ BodyReadsFrom(buf, HeaderOf(buf).length)) => pc = "Err"
    /\ (BodyDecoded /\ ReturnedOk) => 4 + BodyRead(buf) = header.length

\* the body decode read past the declared length, inside the buffer, and the
\* call ended in LengthMismatch
C12_Witness ==
    /\ BodyDecoded
    /\ pc = "Err" /\ err = "LengthMismatch"
    /\ BodyReadsFrom(buf, HeaderOf(buf).length)
    /\ 4 + BodyRead(buf) <= Len(buf)

====
